---- MODULE Spec2Model ----
(***************************************************************************)
(* A model of src/src/index.ts: the input directory is located (readFiles),*)
(* every located file is loaded and its entries extracted concurrently     *)
(* (processEntryFiles), the entries are merged by objectid (uniqBy) and    *)
(* the merged sequence is exported (saveEntries).                          *)
(*                                                                         *)
(* JavaScript values are records tagged with a "type" field.  A property   *)
(* that an object does not have is a field the record does not have.       *)
(* The output file system is taken to be reliable: mkdir and writeFile     *)
(* complete without an error.  glob and readFile may fail.                 *)
(***************************************************************************)
EXTENDS Integers, Sequences, FiniteSets

\* ------------------------------------------------------------------------
\* Bounds of the model
\* ------------------------------------------------------------------------

\* The most files the input directory holds.
MaxFiles == 2

\* The most features the files of the input directory hold together.
MaxFeatures == 2

\* The objectid values and the lokalita values of the records in the files.
ObjectIds == {1, 2}

Lokalita == {"X", "Y"}

\* ------------------------------------------------------------------------
\* JavaScript values
\* ------------------------------------------------------------------------

Undefined == [type |-> "undefined"]

Null == [type |-> "null"]

Num(n) == [type |-> "number", value |-> n]

Str(s) == [type |-> "string", value |-> s]

EmptyObject == [type |-> "object"]

Array(items) == [type |-> "array", items |-> items]

Nullish(v) == v.type \in {"undefined", "null"}

\* Boolean(v): undefined, null and 0 are falsy, objects and arrays are truthy.
Truthy(v) == ~Nullish(v) /\ ~(v.type = "number" /\ v.value = 0)

\* v[field] for a v that is neither null nor undefined: a primitive and an
\* object without the field give undefined.
Get(v, field) ==
  IF v.type = "object" /\ field \in DOMAIN v THEN v[field] ELSE Undefined

\* interface Entry, reduced to the dedupe key and one domain attribute.  The
\* code reads a record from JSON unchecked, so objectid may be missing.
Entry ==
  {[type |-> "object", objectid |-> Num(id), lokalita |-> Str(l)] :
     id \in ObjectIds, l \in Lokalita}
  \cup {[type |-> "object", lokalita |-> Str("X")]}

\* The elements of a features array: null, an object without attributes, an
\* object with a record as attributes.
Feature ==
  {Null, EmptyObject} \cup {[type |-> "object", attributes |-> e] : e \in Entry}

\* A file of the input directory: unreadable, readable with a text that is
\* not JSON, or readable with the text of a JSON document.
Unreadable == [readable |-> FALSE]

Malformed == [readable |-> TRUE, parseable |-> FALSE]

JsonFile(doc) == [readable |-> TRUE, parseable |-> TRUE, json |-> doc]

\* The JSON document with the features array items.
FeatureDocument(items) == [type |-> "object", features |-> Array(items)]

\* The JSON documents that hold no features array: null, an object without
\* features, an object whose features is a number.
OtherDocument ==
  {Null, EmptyObject, [type |-> "object", features |-> Num(5)]}

\* The files that hold no features array.
OtherFile == {Unreadable, Malformed} \cup {JsonFile(doc) : doc \in OtherDocument}

\* The shape of a file: a file without a features array, or the length of
\* its features array.
FileShape(t) == {[file |-> f] : f \in OtherFile} \cup {[features |-> n] : n \in 0..t}

FeaturesOf(shape) == IF "features" \in DOMAIN shape THEN shape.features ELSE 0

\* The shapes of the directories of at most m files that hold t features.
RECURSIVE DirectoryShape(_, _)
DirectoryShape(m, t) ==
  (IF t = 0 THEN {<<>>} ELSE {})
  \cup (IF m = 0 THEN {}
        ELSE UNION {{<<s>> \o rest : rest \in DirectoryShape(m - 1, t - FeaturesOf(s))} :
                      s \in FileShape(t)})

\* The directory of the given shape whose features arrays hold the features
\* of flat from left to right.
RECURSIVE DirectoryFrom(_, _, _, _)
DirectoryFrom(shape, flat, i, used) ==
  IF i > Len(shape) THEN <<>>
  ELSE LET n == FeaturesOf(shape[i])
           file == IF "file" \in DOMAIN shape[i] THEN shape[i].file
                   ELSE JsonFile(FeatureDocument(SubSeq(flat, used + 1, used + n)))
       IN  <<file>> \o DirectoryFrom(shape, flat, i + 1, used + n)

\* ------------------------------------------------------------------------
\* Errors
\* ------------------------------------------------------------------------

NoError == [name |-> "none"]

GlobError == [name |-> "GlobError"]

\* The error of fsp.readFile for the file at index i of the file list.
ReadError(i) == [name |-> "ReadError", file |-> i]

\* The TypeError of extractEntries for the file at index i of the file list.
TypeError(i) == [name |-> "TypeError", file |-> i]

InvalidExportFormat(format) == [name |-> "Invalid export format", format |-> format]

\* ------------------------------------------------------------------------
\* loadFile and extractEntries
\* ------------------------------------------------------------------------

\* loadFile with a catch block that returns null.
ParseOrNull(file) ==
  IF file.parseable THEN file.json ELSE Null

\* JSON.parse(content) inside the try block of loadFile: the document, or {}
\* when the text does not parse.  file is a readable file.
ParseOrEmpty(file) ==
  IF file.parseable THEN file.json ELSE EmptyObject

\* fileContent.features ?? []
FeaturesOrEmpty(fileContent) ==
  LET features == Get(fileContent, "features")
  IN  IF Nullish(features) THEN Array(<<>>) ELSE features

\* feature?.attributes ?? null
AttributesOrNull(feature) ==
  LET attributes == IF Nullish(feature) THEN Undefined ELSE Get(feature, "attributes")
  IN  IF Nullish(attributes) THEN Null ELSE attributes

\* extractEntries raises a TypeError when fileContent is null or undefined
\* (a property of null is read) and when features is not an array (it has no
\* map method).
ExtractThrows(fileContent) ==
  \/ Nullish(fileContent)
  \/ FeaturesOrEmpty(fileContent).type # "array"

\* extractEntries(fileContent) when it does not raise.
extractEntries(fileContent) ==
  LET features == FeaturesOrEmpty(fileContent).items
      mapped == [i \in 1..Len(features) |-> AttributesOrNull(features[i])]
  IN  SelectSeq(mapped, Truthy)

\* ------------------------------------------------------------------------
\* The merge
\* ------------------------------------------------------------------------

\* The iteratee of uniqBy: entry.objectid.
objectid(entry) == Get(entry, "objectid")

\* lodash uniqBy(array, iteratee): the elements of array in order, an element
\* left out when an element before it has the same key.
RECURSIVE UniqFrom(_, _, _, _)
UniqFrom(array, i, seen, result) ==
  IF i > Len(array) THEN result
  ELSE IF objectid(array[i]) \in seen
       THEN UniqFrom(array, i + 1, seen, result)
       ELSE UniqFrom(array, i + 1, seen \cup {objectid(array[i])},
                     Append(result, array[i]))

\* The elements of array at the indexes of keep, in order.
RECURSIVE PickFrom(_, _, _)
PickFrom(array, keep, i) ==
  IF i > Len(array) THEN <<>>
  ELSE (IF i \in keep THEN <<array[i]>> ELSE <<>>) \o PickFrom(array, keep, i + 1)

\* A dedupe that leaves every element without a key in.
uniqByDefined(array) ==
  PickFrom(array,
           {i \in 1..Len(array) :
              \/ Nullish(objectid(array[i]))
              \/ \A j \in 1..(i - 1) : objectid(array[j]) # objectid(array[i])}, 1)

\* A dedupe that keeps the last element of every key.
uniqByLast(array) ==
  PickFrom(array,
           {i \in 1..Len(array) :
              \A j \in (i + 1)..Len(array) : objectid(array[j]) # objectid(array[i])}, 1)

\* uniq in place of uniqBy: an element is left out when an equal record is
\* before it.
uniqByRecord(array) ==
  PickFrom(array,
           {i \in 1..Len(array) : \A j \in 1..(i - 1) : array[j] # array[i]}, 1)

uniqBy(array) == UniqFrom(array, 1, {}, <<>>)

\* entriesPerFiles.flatMap(fileEntries => fileEntries)
RECURSIVE FlatFrom(_, _)
FlatFrom(lists, i) ==
  IF i > Len(lists) THEN <<>> ELSE lists[i] \o FlatFrom(lists, i + 1)

flatMap(lists) == FlatFrom(lists, 1)

\* ------------------------------------------------------------------------
\* The serializers of saveEntries
\* ------------------------------------------------------------------------

\* Object.keys(entry): the fields the record has, in the order of the file.
Keys(entry) ==
  SelectSeq(<<"objectid", "lokalita">>, LAMBDA k : k \in DOMAIN entry)

\* The lines JSON.stringify(entry, null, 2) prints for one record.
JsonLines(entry) ==
  <<[line |-> "{"]>>
  \o [i \in 1..Len(Keys(entry)) |->
        [line |-> "field", key |-> Keys(entry)[i], value |-> entry[Keys(entry)[i]]]]
  \o <<[line |-> "}"]>>

\* json: (entries) => JSON.stringify(entries, null, 2).  The empty array
\* prints as the one line "[]".
json(entries) ==
  IF entries = <<>> THEN <<[line |-> "[]"]>>
  ELSE <<[line |-> "["]>>
       \o flatMap([i \in 1..Len(entries) |-> JsonLines(entries[i])])
       \o <<[line |-> "]"]>>

\* A CSV serializer that prints the header of Entry for no record too.
csvWithHeader(entries) ==
  <<[line |-> "row", cells |-> <<Str("objectid"), Str("lokalita")>>]>>
  \o [i \in 1..Len(entries) |->
        [line |-> "row",
         cells |-> <<Get(entries[i], "objectid"), Get(entries[i], "lokalita")>>]]

\* csv: (entries) => Papa.unparse(entries).  The header is the keys of the
\* first record, every record gives one row of the values of these keys, a
\* missing value gives an empty cell; no record gives the empty text.
csv(entries) ==
  IF entries = <<>> THEN <<>>
  ELSE LET fields == Keys(entries[1])
           Row(entry) ==
             [j \in 1..Len(fields) |->
                IF fields[j] \in DOMAIN entry THEN entry[fields[j]] ELSE Str("")]
       IN  <<[line |-> "row", cells |-> [j \in 1..Len(fields) |-> Str(fields[j])]]>>
           \o [i \in 1..Len(entries) |-> [line |-> "row", cells |-> Row(entries[i])]]

\* Object.prototype.toString called as a plain function: its result does not
\* depend on the entries.
ObjectPrototypeToString(entries) == <<[line |-> "[object Undefined]"]>>

\* The formats saveEntries is called with.  "json" and "csv" are the own
\* properties of formatSerializers, "toString" is a property it inherits from
\* Object.prototype, "xml" is no property of it.
Format == {"json", "csv", "xml", "toString"}

\* The options of a call of saveEntries: none, or a format.
NoOptions == [type |-> "undefined"]

Options == {NoOptions} \cup {[type |-> "object", format |-> f] : f \in Format}

\* const {outputFile = './output.json', format = 'json'} = options ?? {}
FormatOf(opts) ==
  IF Nullish(opts) \/ "format" \notin DOMAIN opts THEN "json" ELSE opts.format

\* formatSerializers[format] is truthy.
HasSerializer(format) == format \in {"json", "csv", "toString"}

\* formatSerializers[format](entries)
Serialize(format, entries) ==
  CASE format = "json" -> json(entries)
    [] format = "csv" -> csv(entries)
    [] OTHER -> ObjectPrototypeToString(entries)

\* ------------------------------------------------------------------------
\* The state
\* ------------------------------------------------------------------------

VARIABLES
  input,            \* the files "input/*.json" matches, in the order glob lists them
  pc,               \* where main is
  filenames,        \* the file list readFiles resolved with (indexes into input)
  task,             \* the promise of the callback of filenames.map, per file
  entriesPerFiles,  \* the values Promise.all has gathered
  gathered,         \* the promise of Promise.all: pending, fulfilled, rejected
  error,            \* the error main is rejected with
  entries,          \* the result of processEntryFiles
  options,          \* the options saveEntries was called with
  trace,            \* what saveEntries has done so far: log lines, mkdir, write
  outputDir,        \* whether the parent directory of outputFile exists
  outputFile        \* the file at outputFile

vars ==
  <<input, pc, filenames, task, entriesPerFiles, gathered, error, entries,
    options, trace, outputDir, outputFile>>

Pending == [state |-> "pending"]

Fulfilled(value) == [state |-> "fulfilled", value |-> value]

Rejected(reason) == [state |-> "rejected", reason |-> reason]

Absent == [exists |-> FALSE]

FileOf(content) == [exists |-> TRUE, content |-> content]

Init ==
  /\ \E t \in 0..MaxFeatures :
       \E flat \in [1..t -> Feature], shape \in DirectoryShape(MaxFiles, t) :
         input = DirectoryFrom(shape, flat, 1, 0)
  /\ pc = "readFiles"
  /\ filenames = <<>>
  /\ task = <<>>
  /\ entriesPerFiles = <<>>
  /\ gathered = "pending"
  /\ error = NoError
  /\ entries = <<>>
  /\ options = NoOptions
  /\ trace = <<>>
  /\ outputDir = FALSE
  /\ outputFile = Absent

\* ------------------------------------------------------------------------
\* readFiles
\* ------------------------------------------------------------------------

\* glob calls back with an error: readFiles rejects and so does main.
ReadFilesRejects ==
  /\ pc = "readFiles"
  /\ pc' = "failed"
  /\ error' = GlobError
  /\ UNCHANGED <<input, filenames, task, entriesPerFiles, gathered, entries,
                 options, trace, outputDir, outputFile>>

\* glob calls back with the file names: main calls processEntryFiles, which
\* starts one task per file and awaits Promise.all of them.  Promise.all of
\* no promise is fulfilled at once.
ReadFilesResolves ==
  /\ pc = "readFiles"
  /\ pc' = "processEntryFiles"
  /\ filenames' = [i \in 1..Len(input) |-> i]
  /\ task' = [i \in 1..Len(input) |-> Pending]
  /\ entriesPerFiles' = [i \in 1..Len(input) |-> <<>>]
  /\ gathered' = IF Len(input) = 0 THEN "fulfilled" ELSE "pending"
  /\ UNCHANGED <<input, error, entries, options, trace, outputDir, outputFile>>

\* ------------------------------------------------------------------------
\* processEntryFiles
\* ------------------------------------------------------------------------

\* loadFile with readFile inside the try block: no read error comes out.
loadFileCatchAll(file, i) ==
  IF file.readable THEN Fulfilled(ParseOrEmpty(file)) ELSE Fulfilled(EmptyObject)

\* loadFile(filename): the document, or the error of readFile.
loadFile(file, i) ==
  IF file.readable THEN Fulfilled(ParseOrEmpty(file)) ELSE Rejected(ReadError(i))

\* The callback of filenames.map for the file at index i: loadFile, then
\* extractEntries.
FileTask(file, i) ==
  LET fileData == loadFile(file, i)
  IN  IF fileData.state = "rejected" THEN fileData
      ELSE IF ExtractThrows(fileData.value) THEN Rejected(TypeError(i))
      ELSE Fulfilled(extractEntries(fileData.value))

\* A gather that pushes every value when its task is fulfilled.
CompletionIndex(i, settled) == settled + 1

\* The index of the result array at which Promise.all stores the value of
\* the promise at index i, when settled promises were fulfilled before it.
ResultIndex(i, settled) == i

\* The read of the file at index i completes and its task runs to its end.
\* Promise.all is rejected with the reason of the first task that is
\* rejected, and fulfilled when every task is fulfilled.
LoadFile(i) ==
  /\ task[i].state = "pending"
  /\ LET outcome == FileTask(input[filenames[i]], i)
         settled == Cardinality({j \in DOMAIN task : task[j].state = "fulfilled"})
     IN  /\ task' = [task EXCEPT ![i] = outcome]
         /\ IF outcome.state = "rejected"
            THEN /\ gathered' = IF gathered = "pending" THEN "rejected" ELSE gathered
                 /\ error' = IF gathered = "pending" THEN outcome.reason ELSE error
                 /\ UNCHANGED entriesPerFiles
            ELSE /\ entriesPerFiles' =
                      [entriesPerFiles EXCEPT ![ResultIndex(i, settled)] = outcome.value]
                 /\ gathered' =
                      IF gathered = "pending"
                         /\ \A j \in DOMAIN task : task'[j].state = "fulfilled"
                      THEN "fulfilled" ELSE gathered
                 /\ UNCHANGED error
  /\ UNCHANGED <<input, pc, filenames, entries, options, trace, outputDir, outputFile>>

\* Promise.all is fulfilled: processEntryFiles merges and returns.
ProcessEntryFilesResolves ==
  /\ pc = "processEntryFiles"
  /\ gathered = "fulfilled"
  /\ entries' = uniqBy(flatMap(entriesPerFiles))
  /\ pc' = "saveEntries"
  /\ UNCHANGED <<input, filenames, task, entriesPerFiles, gathered, error,
                 options, trace, outputDir, outputFile>>

\* Promise.all is rejected: processEntryFiles rejects and so does main.
ProcessEntryFilesRejects ==
  /\ pc = "processEntryFiles"
  /\ gathered = "rejected"
  /\ pc' = "failed"
  /\ UNCHANGED <<input, filenames, task, entriesPerFiles, gathered, error,
                 entries, options, trace, outputDir, outputFile>>

\* ------------------------------------------------------------------------
\* saveEntries
\* ------------------------------------------------------------------------

LogCreating == [op |-> "log", text |-> "Creating parent directory"]

LogWriting(n) == [op |-> "log", text |-> "Writing entries to file", count |-> n]

Mkdir == [op |-> "mkdir"]

FormatCheck == [op |-> "check"]

Write == [op |-> "write"]

\* saveEntries(entries, opts) up to its first await: the first line is
\* logged and mkdir is started.  main calls it with format 'csv'; the model
\* calls it with every format of Format and without options.
SaveEntries(opts) ==
  /\ pc = "saveEntries"
  /\ options' = opts
  /\ trace' = Append(trace, LogCreating)
  /\ pc' = "mkdir"
  /\ UNCHANGED <<input, filenames, task, entriesPerFiles, gathered, error,
                 entries, outputDir, outputFile>>

\* mkdir completes: the second line is logged, the serializer is looked up,
\* and either the error is thrown or the text is serialized and writeFile is
\* started.
MkdirDone ==
  /\ pc = "mkdir"
  /\ outputDir' = TRUE
  /\ trace' = trace \o <<Mkdir, LogWriting(Len(entries)), FormatCheck>>
  /\ IF HasSerializer(FormatOf(options))
     THEN /\ pc' = "writeFile"
          /\ UNCHANGED error
     ELSE /\ pc' = "failed"
          /\ error' = InvalidExportFormat(FormatOf(options))
  /\ UNCHANGED <<input, filenames, task, entriesPerFiles, gathered, entries,
                 options, outputFile>>

\* writeFile completes: the file holds the serialized entries.
WriteFileDone ==
  /\ pc = "writeFile"
  /\ outputFile' = FileOf(Serialize(FormatOf(options), entries))
  /\ trace' = Append(trace, Write)
  /\ pc' = "done"
  /\ UNCHANGED <<input, filenames, task, entriesPerFiles, gathered, error,
                 entries, options, outputDir>>

Next ==
  \/ ReadFilesRejects
  \/ ReadFilesResolves
  \/ \E i \in DOMAIN task : LoadFile(i)
  \/ ProcessEntryFilesResolves
  \/ ProcessEntryFilesRejects
  \/ \E opts \in Options : SaveEntries(opts)
  \/ MkdirDone
  \/ WriteFileDone

Spec == Init /\ [][Next]_vars

\* ------------------------------------------------------------------------
\* What the properties speak of
\* ------------------------------------------------------------------------

\* The objectid of a record, undefined when the record has none.
ObjectIdOf(entry) ==
  IF "objectid" \in DOMAIN entry THEN entry.objectid ELSE Undefined

\* processEntryFiles has returned entries to main, which is about to call
\* saveEntries with them.  No later step changes entries.
Returned == pc = "saveEntries"

\* The record list of every file of the directory dir, a file at a time.
RecordLists(dir) ==
  [i \in 1..Len(dir) |->
     LET outcome == FileTask(dir[i], i)
     IN  IF outcome.state = "fulfilled" THEN outcome.value ELSE <<>>]

\* The concatenation of the record lists: files in file-list order, records
\* in their position within the file.
Concatenation(dir) == flatMap(RecordLists(dir))

\* The position of the first record of the given objectid in the sequence.
FirstOf(records, id) ==
  CHOOSE j \in 1..Len(records) :
    /\ ObjectIdOf(records[j]) = id
    /\ \A k \in 1..(j - 1) : ObjectIdOf(records[k]) # id

\* The objectid values of a sequence of records.
IdsOf(records) == {ObjectIdOf(records[j]) : j \in 1..Len(records)}

\* The records of the sequence that have the given objectid.
Occurrences(records, id) == {j \in 1..Len(records) : ObjectIdOf(records[j]) = id}

\* The operations of the given kind that saveEntries has done.
Done(op) == {k \in 1..Len(trace) : trace[k].op = op}

\* saveEntries has left the file system and the console as they were.
NoExport ==
  trace = <<>> /\ ~outputDir /\ outputFile = Absent /\ pc \notin {"mkdir", "writeFile", "done"}

\* ------------------------------------------------------------------------
\* C1
\* ------------------------------------------------------------------------

\* C1: no two records of the sequence processEntryFiles returns have the
\* same objectid.
C1_NoSharedObjectId ==
  Returned =>
    \A a, b \in 1..Len(entries) :
      a # b => ObjectIdOf(entries[a]) # ObjectIdOf(entries[b])

\* The files hold two records of one objectid and the merge has returned.
C1_Witness ==
  /\ Returned
  /\ Len(entries) = 1
  /\ \E i \in 1..Len(input) : Len(RecordLists(input)[i]) = 2

\* ------------------------------------------------------------------------
\* C2
\* ------------------------------------------------------------------------

\* C2: of the records of an objectid that occurs more than once in the
\* concatenation of the record lists (files in file-list order, records in
\* their position in the file), the returned sequence holds exactly the
\* first, field for field.
C2_FirstOccurrenceKept ==
  Returned =>
    LET all == Concatenation(input)
    IN  \A id \in IdsOf(all) :
          Cardinality(Occurrences(all, id)) > 1 =>
            /\ Cardinality(Occurrences(entries, id)) = 1
            /\ \A k \in Occurrences(entries, id) : entries[k] = all[FirstOf(all, id)]

\* Two files hold one record each, of the same objectid and of different
\* lokalita, and the merge has returned.
C2_Witness ==
  /\ Returned
  /\ Len(input) = 2
  /\ Len(RecordLists(input)[1]) = 1
  /\ Len(RecordLists(input)[2]) = 1
  /\ "objectid" \in DOMAIN RecordLists(input)[1][1]
  /\ ObjectIdOf(RecordLists(input)[1][1]) = ObjectIdOf(RecordLists(input)[2][1])
  /\ RecordLists(input)[1][1] # RecordLists(input)[2][1]
  /\ entries = RecordLists(input)[1]

\* ------------------------------------------------------------------------
\* C3
\* ------------------------------------------------------------------------

\* C3: whatever the order in which the reads complete, the record list of a
\* file is gathered at the place of the file in the file list, and the
\* returned sequence is the one that processing the files one by one in
\* file-list order gives.
C3_OrderOfCompletionIrrelevant ==
  /\ pc = "processEntryFiles" =>
       \A i \in DOMAIN task :
         entriesPerFiles[i] =
           IF task[i].state = "fulfilled" THEN FileTask(input[i], i).value ELSE <<>>
  /\ Returned => entries = uniqBy(Concatenation(input))

\* The read of the second file has completed before the read of the first
\* and its record is gathered; the two files hold different records of one
\* objectid.
C3_Witness ==
  /\ Len(task) = 2
  /\ task[1].state = "pending"
  /\ task[2].state = "fulfilled"
  /\ Len(entriesPerFiles[2]) = 1
  /\ Len(RecordLists(input)[1]) = 1
  /\ RecordLists(input)[1] # RecordLists(input)[2]
  /\ ObjectIdOf(RecordLists(input)[1][1]) = ObjectIdOf(RecordLists(input)[2][1])

\* ------------------------------------------------------------------------
\* C4
\* ------------------------------------------------------------------------

\* C4: the returned sequence has as many records as the extracted records
\* have distinct objectid values, one record for every such value.
C4_OneRecordPerObjectId ==
  Returned =>
    LET all == Concatenation(input)
    IN  /\ Len(entries) = Cardinality(IdsOf(all))
        /\ \A id \in IdsOf(all) : Cardinality(Occurrences(entries, id)) = 1

\* Two files hold equal records of one objectid and the merge has returned
\* one record.
C4_Witness ==
  /\ Returned
  /\ Len(input) = 2
  /\ Len(RecordLists(input)[1]) = 1
  /\ RecordLists(input)[1] = RecordLists(input)[2]
  /\ Len(entries) = 1

\* ------------------------------------------------------------------------
\* C5
\* ------------------------------------------------------------------------

\* The directory with every readable file that is not JSON replaced by a
\* file that holds the empty document.
MalformedAsEmpty(dir) ==
  [i \in 1..Len(dir) |-> IF dir[i] = Malformed THEN JsonFile(EmptyObject) ELSE dir[i]]

\* C5: the task of a readable file that is not JSON is fulfilled with no
\* record; when no other task is rejected processEntryFiles is fulfilled, and
\* it returns what it returns for the directory with the file replaced by an
\* empty document.
C5_MalformedFileIsEmpty ==
  /\ \A i \in DOMAIN task :
       input[i] = Malformed /\ task[i].state # "pending" => task[i] = Fulfilled(<<>>)
  /\ (/\ pc # "readFiles"
      /\ error # GlobError
      /\ \A i \in DOMAIN task :
           task[i].state = "fulfilled" \/ (input[i] = Malformed /\ task[i].state # "pending"))
     => gathered = "fulfilled"
  /\ Returned => entries = uniqBy(Concatenation(MalformedAsEmpty(input)))

\* A file that is not JSON stands before a file with a record, and the merge
\* has returned that record.
C5_Witness ==
  /\ Returned
  /\ Len(input) = 2
  /\ input[1] = Malformed
  /\ Len(entries) = 1
  /\ entries = RecordLists(input)[2]

\* ------------------------------------------------------------------------
\* C6
\* ------------------------------------------------------------------------

\* C6: for every document loadFile returns, extractEntries returns a list
\* and raises nothing: the task of a readable file is never rejected.
C6_ExtractionTotal ==
  \A i \in DOMAIN task :
    input[i].readable /\ task[i].state # "pending" => task[i].state = "fulfilled"

\* ------------------------------------------------------------------------
\* C7
\* ------------------------------------------------------------------------

\* C7: once saveEntries has looked up the serializer of a format that is
\* neither "json" nor "csv", it has failed with the "Invalid export format"
\* error and the file at outputFile is neither written nor created.
C7_InvalidFormatRejected ==
  Done("check") # {} /\ FormatOf(options) \notin {"json", "csv"} =>
    /\ pc = "failed"
    /\ error = InvalidExportFormat(FormatOf(options))
    /\ Done("write") = {}
    /\ outputFile = Absent

\* ------------------------------------------------------------------------
\* C8
\* ------------------------------------------------------------------------

\* C8 as stated: once the read of a file has failed, processEntryFiles is
\* rejected with the error of that read, saveEntries is not called and
\* nothing is created or written.
C8_AbortsWithThatError ==
  \A i \in DOMAIN task :
    ~input[i].readable /\ task[i].state # "pending" =>
      /\ gathered = "rejected"
      /\ error = ReadError(i)
      /\ NoExport

\* C8 as amended: once the read of a file has failed, processEntryFiles is
\* rejected with the error of a rejected task, saveEntries is not called and
\* nothing is created or written; the error is that of the first task that
\* was rejected, and no later failure replaces it.
C8_AbortsWithFirstError ==
  /\ [](\A i \in DOMAIN task :
          ~input[i].readable /\ task[i].state # "pending" =>
            /\ gathered = "rejected"
            /\ pc \in {"processEntryFiles", "failed"}
            /\ \E j \in DOMAIN task : task[j].state = "rejected" /\ error = task[j].reason
            /\ NoExport)
  /\ [][/\ gathered = "pending" /\ gathered' = "rejected" =>
             /\ \A j \in DOMAIN task : task[j].state # "rejected"
             /\ \E i \in DOMAIN task :
                  /\ task[i].state = "pending"
                  /\ task'[i].state = "rejected"
                  /\ error' = task'[i].reason
        /\ gathered = "rejected" => gathered' = "rejected" /\ error' = error]_vars

\* The reads of two files have failed, the read of the second file first:
\* main is rejected with the error of the second file.
C8_Witness ==
  /\ Len(task) = 2
  /\ ~input[1].readable
  /\ task[1].state = "rejected"
  /\ task[2].state = "rejected"
  /\ error = ReadError(2)
  /\ pc = "failed"

\* ------------------------------------------------------------------------
\* C9
\* ------------------------------------------------------------------------

\* C9: when glob matches no file, processEntryFiles returns no record, the
\* export in format "json" or "csv" does not fail, and when it is done the
\* file was written once and holds the serialization of no record: "[]" for
\* JSON, the empty text for CSV.
C9_EmptyInputWritesEmptyOutput ==
  Len(input) = 0 /\ pc # "readFiles" /\ error # GlobError =>
    /\ gathered = "fulfilled"
    /\ entries = <<>>
    /\ Cardinality(Done("write")) <= 1
    /\ FormatOf(options) \in {"json", "csv"} =>
         /\ pc # "failed"
         /\ pc = "done" =>
              /\ Cardinality(Done("write")) = 1
              /\ outputFile =
                   FileOf(IF FormatOf(options) = "csv" THEN <<>> ELSE <<[line |-> "[]"]>>)

\* The directory is empty and the export in format "csv" is done.
C9_Witness ==
  /\ Len(input) = 0
  /\ pc = "done"
  /\ "format" \in DOMAIN options
  /\ options.format = "csv"
  /\ outputFile = FileOf(<<>>)

\* ------------------------------------------------------------------------
\* C10
\* ------------------------------------------------------------------------

\* The file system operations and the format check of saveEntries, in order.
Effects == SelectSeq(trace, LAMBDA e : e.op \in {"mkdir", "check", "write"})

\* C10: once saveEntries has looked up the serializer of a format that is
\* neither "json" nor "csv", the parent directory exists, the "Writing N
\* entries" line is logged, the call has failed and no file is written; and
\* the effects of saveEntries are in the order mkdir, format check, at most
\* one write.
C10_DirectoryAndLogBeforeFormatCheck ==
  /\ Done("check") # {} /\ FormatOf(options) \notin {"json", "csv"} =>
       /\ outputDir
       /\ \E k \in 1..Len(trace) : trace[k] = LogWriting(Len(entries))
       /\ pc = "failed"
       /\ Done("write") = {}
       /\ outputFile = Absent
  /\ Effects = SubSeq(<<Mkdir, FormatCheck, Write>>, 1, Len(Effects))

====
